---- MODULE Spec2Model ----
(***************************************************************************)
(* Model of the ember-sentinel dashboard's two page components:            *)
(*   - PendingLocationRequests (src/src/pages/PendingLocationRequests.tsx) *)
(*   - LocationDetails         (src/unnamed/part_000)                      *)
(* Each component is a state machine of its React state, the remote tables *)
(* it writes, and the async handlers that are suspended at an await.       *)
(***************************************************************************)
EXTENDS Integers, Sequences, FiniteSets, TLC

\* ------------------------------------------------------------------ bounds
NumRequests == 2      \* rows of location_requests
MaxClicks == 3        \* approve/reject clicks in one behaviour
NumLocations == 3     \* rows of locations the detail view can be routed to
MaxEvents == 3        \* effect runs, interval firings and Refresh clicks in one behaviour
MaxValue == 520       \* sensor values range over -MaxValue..MaxValue and NaN
MaxThreshold == 3     \* besides the cards' thresholds, all pairs over 0..MaxThreshold

NULL == "null"
NoId == 0             \* null where an id or a reading is held (processingId, sensorData)
Reviewer == "reviewer"

Requests == 1..NumRequests
LocIds == 1..NumLocations

VARIABLES
    \* ---- PendingLocationRequests: remote tables
    location_requests,   \* id -> [location_name, status, reviewed_by, reviewed_at]
    locations,           \* id of the originating request -> number of rows inserted from it
    \* ---- PendingLocationRequests: React state
    requests,            \* ids of the rows held in `requests`
    isLoading,
    processingId,
    \* ---- PendingLocationRequests: async work in flight
    handlers,            \* handleApprove/handleReject invocations suspended at an await (a bag)
    fetchSent,           \* fetchPendingRequests calls whose select has not run yet
    fetchReplies,        \* rows selected -> number of such replies not yet delivered
    \* ---- PendingLocationRequests: what has happened so far
    clicks,              \* Approve/Reject clicks
    errorToasts,         \* destructive toasts raised by handleApprove/handleReject
    successToasts,       \* "Success" / "Request Rejected" toasts
    fetchErrorToasts,    \* "Failed to fetch pending requests" toasts
    statusWrites,        \* id -> number of status updates applied to the row
    \* ---- LocationDetails: route and React state
    mounted,
    id,                  \* useParams().id
    location,
    sensorData,
    rawData,
    historicalData,
    isLoadingDetails,    \* isLoading of LocationDetails
    isRefreshing,
    \* ---- LocationDetails: timers and async work in flight
    intervals,           \* live setInterval timers: [handle, location of the closure]
    tasks,               \* async functions suspended at an await (a bag)
    \* ---- LocationDetails: what has happened so far
    effects,             \* runs of the effect; the last one's interval has this handle
    ticks,               \* firings of an interval
    refreshes,           \* clicks of Refresh
    loadErrorToasts,     \* "Error fetching location" toasts
    refreshedToasts,     \* "Data refreshed" toasts
    \* ---- LocationDetails: one SensorCard being rendered
    value,               \* the number passed to getSensorStatus
    thresholds,          \* {warning, danger}
    status               \* the status prop computed for the card

reqVars == <<location_requests, locations, requests, isLoading, processingId,
             handlers, fetchSent, fetchReplies, clicks, errorToasts, successToasts,
             fetchErrorToasts, statusWrites>>

detVars == <<mounted, id, location, sensorData, rawData, historicalData,
             isLoadingDetails, isRefreshing, intervals, tasks, effects, ticks,
             refreshes, loadErrorToasts, refreshedToasts>>

statVars == <<value, thresholds, status>>

vars == <<reqVars, detVars, statVars>>

\* ---------------------------------------------------------------- pages
\* Each page is a route of its own; while one is studied the other two parts
\* of the state stay as below.
RequestsNotRendered ==
    /\ location_requests = <<>>
    /\ locations = <<>>
    /\ requests = {}
    /\ isLoading = TRUE
    /\ processingId = NoId
    /\ handlers = <<>>
    /\ fetchSent = 0
    /\ fetchReplies = <<>>
    /\ clicks = 0
    /\ errorToasts = 0
    /\ successToasts = 0
    /\ fetchErrorToasts = 0
    /\ statusWrites = <<>>

DetailsNotRendered ==
    /\ mounted = FALSE
    /\ id = NoId
    /\ location = {}
    /\ sensorData = NoId
    /\ rawData = NoId
    /\ historicalData = <<>>
    /\ isLoadingDetails = TRUE
    /\ isRefreshing = FALSE
    /\ intervals = {}
    /\ tasks = <<>>
    /\ effects = 0
    /\ ticks = 0
    /\ refreshes = 0
    /\ loadErrorToasts = 0
    /\ refreshedToasts = 0

NoSensorCard ==
    /\ value = {}
    /\ thresholds = {}
    /\ status = "none"

\* ------------------------------------------------ PendingLocationRequests
\* a row as submitted: the submitter's fields (location_name stands for them) and
\* the review fields
PendingRow(rid) ==
    [location_name |-> rid, status |-> "pending", reviewed_by |-> NULL, reviewed_at |-> NULL]

\* .from("location_requests").select("*").eq("status", "pending")
SelectPending(table) == {r \in DOMAIN table : table[r].status = "pending"}

\* an update that leaves out .eq("id", request.id)
UpdateStatusAllRows(table, rid, newStatus, user) ==
    [r \in DOMAIN table |->
        [table[r] EXCEPT !.status = newStatus, !.reviewed_by = user, !.reviewed_at = "now"]]

\* .from("location_requests").update({status, reviewed_by, reviewed_at}).eq("id", id)
UpdateStatus(table, rid, newStatus, user) ==
    [r \in DOMAIN table |->
        IF r = rid
        THEN [table[r] EXCEPT !.status = newStatus, !.reviewed_by = user,
                              !.reviewed_at = "now"]
        ELSE table[r]]

\* .from("locations").insert({... fields of request ..., status: "normal"})
InsertLocation(table, request) ==
    [table EXCEPT ![request] = @ + 1]

\* the inverse of InsertLocation; the source has no such call
DeleteLocation(table, request) ==
    [table EXCEPT ![request] = IF @ > 0 THEN @ - 1 ELSE 0]

\* A suspended invocation: which handler, the request it closed over, the await
\* it is suspended at, and `user` once getUser has resolved.
Handler(kind, request, pc) ==
    [kind |-> kind, req |-> request, pc |-> pc,
     user |-> IF pc = "getUser" THEN NULL ELSE Reviewer]

HandlerStates ==
    {Handler("approve", r, pc) : r \in Requests, pc \in {"getUser", "insert", "update"}}
    \cup {Handler("reject", r, pc) : r \in Requests, pc \in {"getUser", "update"}}

Suspend(bag, k) == [bag EXCEPT ![k] = @ + 1]
Resume(bag, k) == [bag EXCEPT ![k] = @ - 1]
InFlight == {k \in HandlerStates : handlers[k] > 0}

\* fetchPendingRequests: the select is issued (a call that has not reached the server)
IssueFetch(sent) == sent + 1

InitRequests ==
    /\ location_requests = [r \in Requests |-> PendingRow(r)]
    /\ locations = [r \in Requests |-> 0]
    /\ requests = {}
    /\ isLoading = TRUE
    /\ processingId = NoId
    /\ handlers = [k \in HandlerStates |-> 0]
    /\ fetchSent = IssueFetch(0)       \* useEffect(() => fetchPendingRequests(), [])
    /\ fetchReplies = [d \in SUBSET Requests |-> 0]
    /\ clicks = 0
    /\ errorToasts = 0
    /\ successToasts = 0
    /\ fetchErrorToasts = 0
    /\ statusWrites = [r \in Requests |-> 0]
    /\ DetailsNotRendered
    /\ NoSensorCard

\* fetchPendingRequests: the select runs on the server; its reply is in flight
FetchSelect ==
    /\ fetchSent > 0
    /\ fetchSent' = fetchSent - 1
    /\ fetchReplies' = [fetchReplies EXCEPT ![SelectPending(location_requests)] = @ + 1]
    /\ UNCHANGED <<location_requests, locations, requests, isLoading, processingId,
                   handlers, clicks, errorToasts, successToasts, fetchErrorToasts,
                   statusWrites>>
    /\ UNCHANGED <<detVars, statVars>>

\* fetchPendingRequests: the awaited select resolves without error
FetchResolve(data) ==
    /\ fetchReplies[data] > 0
    /\ requests' = data
    /\ isLoading' = FALSE
    /\ fetchReplies' = [fetchReplies EXCEPT ![data] = @ - 1]
    /\ UNCHANGED <<location_requests, locations, processingId, handlers, fetchSent,
                   clicks, errorToasts, successToasts, fetchErrorToasts, statusWrites>>
    /\ UNCHANGED <<detVars, statVars>>

\* fetchPendingRequests: the awaited select resolves with an error
FetchError ==
    /\ fetchSent > 0
    /\ fetchSent' = fetchSent - 1
    /\ fetchErrorToasts' = fetchErrorToasts + 1
    /\ isLoading' = FALSE
    /\ UNCHANGED <<location_requests, locations, requests, processingId, handlers,
                   fetchReplies, clicks, errorToasts, successToasts, statusWrites>>
    /\ UNCHANGED <<detVars, statVars>>

\* The Approve / Reject buttons of one card: rendered when the list is shown,
\* disabled={processingId === request.id}
ButtonEnabled(request) ==
    /\ ~isLoading
    /\ request \in requests
    /\ processingId # request

\* onClick={() => handleApprove(request)}: runs up to the first await
ClickApprove(request) ==
    /\ ButtonEnabled(request)
    /\ clicks < MaxClicks
    /\ clicks' = clicks + 1
    /\ processingId' = request
    /\ handlers' = Suspend(handlers, Handler("approve", request, "getUser"))
    /\ UNCHANGED <<location_requests, locations, requests, isLoading, fetchSent,
                   fetchReplies, errorToasts, successToasts, fetchErrorToasts,
                   statusWrites>>
    /\ UNCHANGED <<detVars, statVars>>

\* onClick={() => handleReject(request)}: runs up to the first await
ClickReject(request) ==
    /\ ButtonEnabled(request)
    /\ clicks < MaxClicks
    /\ clicks' = clicks + 1
    /\ processingId' = request
    /\ handlers' = Suspend(handlers, Handler("reject", request, "getUser"))
    /\ UNCHANGED <<location_requests, locations, requests, isLoading, fetchSent,
                   fetchReplies, errorToasts, successToasts, fetchErrorToasts,
                   statusWrites>>
    /\ UNCHANGED <<detVars, statVars>>

\* a catch block with no finally: processingId is left as it is
FailedHandlerKeepsProcessing(k) ==
    /\ handlers' = Resume(handlers, k)
    /\ errorToasts' = errorToasts + 1
    /\ UNCHANGED <<processingId, successToasts, fetchSent>>

\* catch { toast(error) } finally { setProcessingId(null) }: the invocation ends
FailedHandler(k) ==
    /\ handlers' = Resume(handlers, k)
    /\ errorToasts' = errorToasts + 1
    /\ processingId' = NoId
    /\ UNCHANGED <<successToasts, fetchSent>>

\* toast(success); fetchPendingRequests(); finally { setProcessingId(null) }
SucceededHandler(k) ==
    /\ handlers' = Resume(handlers, k)
    /\ successToasts' = successToasts + 1
    /\ fetchSent' = IssueFetch(fetchSent)
    /\ processingId' = NoId
    /\ UNCHANGED errorToasts

\* await supabase.auth.getUser() resolves with no user: throw "Not authenticated"
GetUserNone(k) ==
    /\ handlers[k] > 0
    /\ k.pc = "getUser"
    /\ FailedHandler(k)
    /\ UNCHANGED <<location_requests, locations, requests, isLoading, fetchReplies,
                   clicks, fetchErrorToasts, statusWrites>>
    /\ UNCHANGED <<detVars, statVars>>

\* await supabase.auth.getUser() resolves with a user: the first write is issued
GetUserOk(k) ==
    /\ handlers[k] > 0
    /\ k.pc = "getUser"
    /\ handlers' = Suspend(Resume(handlers, k),
                           Handler(k.kind, k.req,
                                   IF k.kind = "approve" THEN "insert" ELSE "update"))
    /\ UNCHANGED <<location_requests, locations, requests, isLoading, processingId,
                   fetchSent, fetchReplies, clicks, errorToasts, successToasts,
                   fetchErrorToasts, statusWrites>>
    /\ UNCHANGED <<detVars, statVars>>

\* a variant of ApproveInsertError without `if (locationError) throw locationError`:
\* the status update is issued although nothing was inserted
ApproveInsertErrorIgnored(k) ==
    /\ handlers[k] > 0
    /\ k.kind = "approve"
    /\ k.pc = "insert"
    /\ handlers' = Suspend(Resume(handlers, k), Handler("approve", k.req, "update"))
    /\ UNCHANGED <<location_requests, locations, requests, isLoading, processingId,
                   fetchSent, fetchReplies, clicks, errorToasts, successToasts,
                   fetchErrorToasts, statusWrites>>
    /\ UNCHANGED <<detVars, statVars>>

\* handleApprove: the insert into locations resolves with locationError
ApproveInsertError(k) ==
    /\ handlers[k] > 0
    /\ k.kind = "approve"
    /\ k.pc = "insert"
    /\ FailedHandler(k)
    /\ UNCHANGED <<location_requests, locations, requests, isLoading, fetchReplies,
                   clicks, fetchErrorToasts, statusWrites>>
    /\ UNCHANGED <<detVars, statVars>>

\* handleApprove: the insert into locations succeeds; the status update is issued
ApproveInsertOk(k) ==
    /\ handlers[k] > 0
    /\ k.kind = "approve"
    /\ k.pc = "insert"
    /\ locations' = InsertLocation(locations, k.req)
    /\ handlers' = Suspend(Resume(handlers, k), Handler("approve", k.req, "update"))
    /\ UNCHANGED <<location_requests, requests, isLoading, processingId, fetchSent,
                   fetchReplies, clicks, errorToasts, successToasts, fetchErrorToasts,
                   statusWrites>>
    /\ UNCHANGED <<detVars, statVars>>

\* a variant of ApproveUpdateError that undoes the insert
ApproveUpdateErrorRollback(k) ==
    /\ handlers[k] > 0
    /\ k.kind = "approve"
    /\ k.pc = "update"
    /\ FailedHandler(k)
    /\ locations' = DeleteLocation(locations, k.req)
    /\ UNCHANGED <<location_requests, requests, isLoading, fetchReplies,
                   clicks, fetchErrorToasts, statusWrites>>
    /\ UNCHANGED <<detVars, statVars>>

\* handleApprove: the status update resolves with updateError
ApproveUpdateError(k) ==
    /\ handlers[k] > 0
    /\ k.kind = "approve"
    /\ k.pc = "update"
    /\ FailedHandler(k)
    /\ UNCHANGED <<location_requests, locations, requests, isLoading, fetchReplies,
                   clicks, fetchErrorToasts, statusWrites>>
    /\ UNCHANGED <<detVars, statVars>>

\* handleApprove: the status update succeeds
ApproveUpdateOk(k) ==
    /\ handlers[k] > 0
    /\ k.kind = "approve"
    /\ k.pc = "update"
    /\ location_requests' = UpdateStatus(location_requests, k.req, "approved", k.user)
    /\ statusWrites' = [statusWrites EXCEPT ![k.req] = @ + 1]
    /\ SucceededHandler(k)
    /\ UNCHANGED <<locations, requests, isLoading, fetchReplies, clicks,
                   fetchErrorToasts>>
    /\ UNCHANGED <<detVars, statVars>>

\* handleReject: the status update resolves with error
RejectUpdateError(k) ==
    /\ handlers[k] > 0
    /\ k.kind = "reject"
    /\ k.pc = "update"
    /\ FailedHandler(k)
    /\ UNCHANGED <<location_requests, locations, requests, isLoading, fetchReplies,
                   clicks, fetchErrorToasts, statusWrites>>
    /\ UNCHANGED <<detVars, statVars>>

\* handleReject: the status update succeeds
RejectUpdateOk(k) ==
    /\ handlers[k] > 0
    /\ k.kind = "reject"
    /\ k.pc = "update"
    /\ location_requests' = UpdateStatus(location_requests, k.req, "rejected", k.user)
    /\ statusWrites' = [statusWrites EXCEPT ![k.req] = @ + 1]
    /\ SucceededHandler(k)
    /\ UNCHANGED <<locations, requests, isLoading, fetchReplies, clicks,
                   fetchErrorToasts>>
    /\ UNCHANGED <<detVars, statVars>>

NextRequests ==
    \/ FetchSelect
    \/ \E data \in SUBSET Requests : FetchResolve(data)
    \/ FetchError
    \/ \E r \in Requests : ClickApprove(r) \/ ClickReject(r)
    \/ \E k \in HandlerStates :
          \/ GetUserNone(k)
          \/ GetUserOk(k)
          \/ ApproveInsertError(k)
          \/ ApproveInsertOk(k)
          \/ ApproveUpdateError(k)
          \/ ApproveUpdateOk(k)
          \/ RejectUpdateError(k)
          \/ RejectUpdateOk(k)

SpecRequests == InitRequests /\ [][NextRequests]_vars
\* -------------------------------------------------------- LocationDetails
\* `location` before the row is fetched: null, on which location?.x is undefined
NullLocation == [id |-> NoId, thingspeak_channel_id |-> {}, thingspeak_read_key |-> {}]

\* The row of location l in the locations table. The credentials are nullable
\* columns (an absent one is {}, a present one {l}): of every four locations two
\* have both, one has no read key and one has no channel id.
DbRow(l) ==
    [id |-> l,
     thingspeak_channel_id |-> IF l % 4 = 0 THEN {} ELSE {l},
     thingspeak_read_key |-> IF l % 4 = 3 THEN {} ELSE {l}]

AllRows == {DbRow(l) : l \in LocIds}

\* location.thingspeak_channel_id && location.thingspeak_read_key
HasCredentials(loc) ==
    loc.thingspeak_channel_id # {} /\ loc.thingspeak_read_key # {}

\* An async function suspended at an await: the function that was called (fn),
\* the `id` and `location` of the render whose closure it is, and the remote
\* call it awaits (pc). A task at "latest" or "history" is a request in flight
\* to thingspeak-service carrying the credentials of its `location`.
Task(fn, closureId, closureLocation, pc) ==
    [fn |-> fn, id |-> closureId, location |-> closureLocation, pc |-> pc]

TaskStates ==
    {Task("fetchLocationData", l, loc, "select") :
        l \in LocIds, loc \in AllRows \cup {NullLocation}}
    \cup {Task(fn, NoId, loc, pc) :
            fn \in {"fetchLocationData", "handleRefresh"},
            loc \in {r \in AllRows : HasCredentials(r)},
            pc \in {"latest", "history"}}
    \cup {Task("fetchSensorData", NoId, loc, "latest") :
            loc \in {r \in AllRows : HasCredentials(r)}}

Running == {t \in TaskStates : tasks[t] > 0}

\* what the user, the router and the clock have done so far
Events == effects + ticks + refreshes

\* a state setter: React drops updates of an unmounted component
SetState(current, next) == IF mounted THEN next ELSE current

\* data.data of a successful "latest" call: the reading of the channel asked for
Reading(loc) == loc.id

\* formattedData of a successful "history" call (results: 50)
History(loc) == <<loc.id>>

\* fetchSensorData of a render that saw `loc`, reading the stale closure
FetchSensorDataIssues(loc) == HasCredentials(loc)

\* fetchHistoricalData of a render that saw `loc`
FetchHistoricalDataIssues(loc) == HasCredentials(loc)

\* a setInterval timer: its handle and the `location` its callback closed over
Timers == [handle : 1..MaxEvents, location : AllRows \cup {NullLocation}]

\* a cleanup that forgets clearInterval
KeepInterval(live, h) == live

\* clearInterval(interval) of the effect that created handle h
ClearInterval(live, h) == {t \in live : t.handle # h}

InitDetails ==
    /\ mounted = FALSE
    /\ id \in LocIds
    /\ location = NullLocation
    /\ sensorData = NoId
    /\ rawData = NoId
    /\ historicalData = <<>>
    /\ isLoadingDetails = TRUE
    /\ isRefreshing = FALSE
    /\ intervals = {}
    /\ tasks = [t \in TaskStates |-> 0]
    /\ effects = 0
    /\ ticks = 0
    /\ refreshes = 0
    /\ loadErrorToasts = 0
    /\ refreshedToasts = 0
    /\ RequestsNotRendered
    /\ NoSensorCard

\* The body of useEffect(..., [id]) in the render that has route id `newId` and
\* state `location`: fetchLocationData() up to its first await, then setInterval.
RunEffect(newId, live) ==
    /\ effects' = effects + 1
    /\ isLoadingDetails' = TRUE
    /\ tasks' = Suspend(tasks, Task("fetchLocationData", newId, location, "select"))
    /\ intervals' = live \cup {[handle |-> effects + 1, location |-> location]}

\* first commit: the effect runs
Mount ==
    /\ ~mounted
    /\ effects = 0
    /\ mounted' = TRUE
    /\ RunEffect(id, intervals)
    /\ UNCHANGED <<id, location, sensorData, rawData, historicalData, isRefreshing,
                   ticks, refreshes, loadErrorToasts, refreshedToasts>>
    /\ UNCHANGED <<reqVars, statVars>>

\* the route id changes: cleanup of the previous effect, then the effect again
ChangeId(newId) ==
    /\ mounted
    /\ newId # id
    /\ Events < MaxEvents
    /\ id' = newId
    /\ RunEffect(newId, ClearInterval(intervals, effects))
    /\ UNCHANGED <<mounted, location, sensorData, rawData, historicalData,
                   isRefreshing, ticks, refreshes, loadErrorToasts, refreshedToasts>>
    /\ UNCHANGED <<reqVars, statVars>>

\* the view unmounts: cleanup of the last effect
Unmount ==
    /\ mounted
    /\ mounted' = FALSE
    /\ intervals' = ClearInterval(intervals, effects)
    /\ UNCHANGED <<id, location, sensorData, rawData, historicalData,
                   isLoadingDetails, isRefreshing, tasks, effects, ticks, refreshes,
                   loadErrorToasts, refreshedToasts>>
    /\ UNCHANGED <<reqVars, statVars>>

\* a live interval fires: fetchSensorData of the render that created it
TimerFires(t) ==
    /\ t \in intervals
    /\ Events < MaxEvents
    /\ ticks' = ticks + 1
    /\ tasks' = IF FetchSensorDataIssues(t.location)
                THEN Suspend(tasks, Task("fetchSensorData", NoId, t.location, "latest"))
                ELSE tasks
    /\ UNCHANGED <<mounted, id, location, sensorData, rawData, historicalData,
                   isLoadingDetails, isRefreshing, intervals, effects, refreshes,
                   loadErrorToasts, refreshedToasts>>
    /\ UNCHANGED <<reqVars, statVars>>

\* fetchLocationData: the select of the row fails (or .single() finds no row)
SelectFails(t) ==
    /\ tasks[t] > 0
    /\ t.pc = "select"
    /\ tasks' = Resume(tasks, t)
    /\ loadErrorToasts' = loadErrorToasts + 1
    /\ isLoadingDetails' = SetState(isLoadingDetails, FALSE)
    /\ UNCHANGED <<mounted, id, location, sensorData, rawData, historicalData,
                   isRefreshing, intervals, effects, ticks, refreshes, refreshedToasts>>
    /\ UNCHANGED <<reqVars, statVars>>

\* fetchLocationData: the select returns the row; setLocation(row); with both
\* credentials in the row, fetchSensorData() and fetchHistoricalData() of the
\* same render are awaited
SelectReturns(t) ==
    /\ tasks[t] > 0
    /\ t.pc = "select"
    /\ location' = SetState(location, DbRow(t.id))
    /\ IF HasCredentials(DbRow(t.id)) /\ FetchSensorDataIssues(t.location)
       THEN /\ tasks' = Suspend(Resume(tasks, t),
                                Task("fetchLocationData", NoId, t.location, "latest"))
            /\ UNCHANGED isLoadingDetails
       ELSE /\ tasks' = Resume(tasks, t)
            /\ isLoadingDetails' = SetState(isLoadingDetails, FALSE)
    /\ UNCHANGED <<mounted, id, sensorData, rawData, historicalData, isRefreshing,
                   intervals, effects, ticks, refreshes, loadErrorToasts,
                   refreshedToasts>>
    /\ UNCHANGED <<reqVars, statVars>>

\* what follows `await fetchSensorData()` in the caller
AfterLatest(t) ==
    IF t.fn = "fetchSensorData"
    THEN Resume(tasks, t)
    ELSE IF FetchHistoricalDataIssues(t.location)
         THEN Suspend(Resume(tasks, t), Task(t.fn, NoId, t.location, "history"))
         ELSE Resume(tasks, t)

\* fetchSensorData: the "latest" call returns {success: true, data}
LatestReturns(t) ==
    /\ tasks[t] > 0
    /\ t.pc = "latest"
    /\ sensorData' = SetState(sensorData, Reading(t.location))
    /\ rawData' = SetState(rawData, Reading(t.location))
    /\ tasks' = AfterLatest(t)
    /\ UNCHANGED <<mounted, id, location, historicalData, isLoadingDetails,
                   isRefreshing, intervals, effects, ticks, refreshes, loadErrorToasts,
                   refreshedToasts>>
    /\ UNCHANGED <<reqVars, statVars>>

\* fetchSensorData: the "latest" call fails or returns success: false
LatestFails(t) ==
    /\ tasks[t] > 0
    /\ t.pc = "latest"
    /\ tasks' = AfterLatest(t)
    /\ UNCHANGED <<mounted, id, location, sensorData, rawData, historicalData,
                   isLoadingDetails, isRefreshing, intervals, effects, ticks,
                   refreshes, loadErrorToasts, refreshedToasts>>
    /\ UNCHANGED <<reqVars, statVars>>

\* a handleRefresh that returns without setIsRefreshing(false) when a fetch failed
AfterHistoryLeavesRefreshing(t, ok) ==
    /\ tasks' = Resume(tasks, t)
    /\ IF t.fn = "handleRefresh"
       THEN /\ isRefreshing' = IF ok THEN SetState(isRefreshing, FALSE) ELSE isRefreshing
            /\ refreshedToasts' = refreshedToasts + 1
            /\ UNCHANGED isLoadingDetails
       ELSE /\ isLoadingDetails' = SetState(isLoadingDetails, FALSE)
            /\ UNCHANGED <<isRefreshing, refreshedToasts>>

\* what follows `await fetchHistoricalData()` in the caller: handleRefresh sets
\* isRefreshing false and toasts; fetchLocationData's finally sets isLoading false
AfterHistory(t, ok) ==
    /\ tasks' = Resume(tasks, t)
    /\ IF t.fn = "handleRefresh"
       THEN /\ isRefreshing' = SetState(isRefreshing, FALSE)
            /\ refreshedToasts' = refreshedToasts + 1
            /\ UNCHANGED isLoadingDetails
       ELSE /\ isLoadingDetails' = SetState(isLoadingDetails, FALSE)
            /\ UNCHANGED <<isRefreshing, refreshedToasts>>

\* fetchHistoricalData: the "history" call returns {success: true, data}
HistoryReturns(t) ==
    /\ tasks[t] > 0
    /\ t.pc = "history"
    /\ historicalData' = SetState(historicalData, History(t.location))
    /\ AfterHistory(t, TRUE)
    /\ UNCHANGED <<mounted, id, location, sensorData, rawData, intervals, effects,
                   ticks, refreshes, loadErrorToasts>>
    /\ UNCHANGED <<reqVars, statVars>>

\* fetchHistoricalData: the "history" call fails or returns success: false
HistoryFails(t) ==
    /\ tasks[t] > 0
    /\ t.pc = "history"
    /\ AfterHistory(t, FALSE)
    /\ UNCHANGED <<mounted, id, location, sensorData, rawData, historicalData,
                   intervals, effects, ticks, refreshes, loadErrorToasts>>
    /\ UNCHANGED <<reqVars, statVars>>

\* the Refresh button: rendered once loading is over and a location is held,
\* disabled={isRefreshing}
RefreshEnabled ==
    /\ mounted
    /\ ~isLoadingDetails
    /\ location # NullLocation
    /\ ~isRefreshing

\* onClick={handleRefresh}, of the render that shows `location`
ClickRefresh ==
    /\ RefreshEnabled
    /\ Events < MaxEvents
    /\ refreshes' = refreshes + 1
    /\ IF FetchSensorDataIssues(location)
       THEN /\ isRefreshing' = TRUE
            /\ tasks' = Suspend(tasks, Task("handleRefresh", NoId, location, "latest"))
            /\ UNCHANGED refreshedToasts
       ELSE /\ isRefreshing' = FALSE
            /\ refreshedToasts' = refreshedToasts + 1
            /\ UNCHANGED tasks
    /\ UNCHANGED <<mounted, id, location, sensorData, rawData, historicalData,
                   isLoadingDetails, intervals, effects, ticks, loadErrorToasts>>
    /\ UNCHANGED <<reqVars, statVars>>

NextDetails ==
    \/ Mount
    \/ \E l \in LocIds : ChangeId(l)
    \/ Unmount
    \/ \E t \in Timers : TimerFires(t)
    \/ ClickRefresh
    \/ \E t \in TaskStates :
          \/ SelectFails(t)
          \/ SelectReturns(t)
          \/ LatestReturns(t)
          \/ LatestFails(t)
          \/ HistoryReturns(t)
          \/ HistoryFails(t)

SpecDetails == InitDetails /\ [][NextDetails]_vars

\* ------------------------------------------------ LocationDetails: SensorCard
\* a JavaScript number: an integer here, or NaN (parseFloat of a non-numeric flame)
Number(n) == [isNaN |-> FALSE, num |-> n]
NaN == [isNaN |-> TRUE, num |-> 0]

\* value >= bound on JavaScript numbers: false whenever value is NaN
Gte(v, bound) == ~v.isNaN /\ v.num >= bound

\* value > bound
Gt(v, bound) == ~v.isNaN /\ v.num > bound

\* the thresholds passed by the Flame, Gas, Temperature and Humidity cards
FlameThresholds == [warning |-> 20, danger |-> 50]
GasThresholds == [warning |-> 300, danger |-> 500]
TemperatureThresholds == [warning |-> 40, danger |-> 60]
HumidityThresholds == [warning |-> 70, danger |-> 85]

CardThresholds ==
    {FlameThresholds, GasThresholds, TemperatureThresholds, HumidityThresholds}

\* getSensorStatus with > in place of >=
getSensorStatusStrict(v, th) ==
    IF Gt(v, th.danger) THEN "danger"
    ELSE IF Gt(v, th.warning) THEN "warning"
    ELSE "normal"

getSensorStatus(v, th) ==
    IF Gte(v, th.danger) THEN "danger"
    ELSE IF Gte(v, th.warning) THEN "warning"
    ELSE "normal"

Values == {Number(n) : n \in (-MaxValue)..MaxValue} \cup {NaN}

Thresholds ==
    CardThresholds
    \cup {[warning |-> w, danger |-> d] : w \in 0..MaxThreshold, d \in 0..MaxThreshold}

InitStatus ==
    /\ value \in Values
    /\ thresholds \in Thresholds
    /\ status = "none"
    /\ RequestsNotRendered
    /\ DetailsNotRendered

\* a SensorCard is rendered: status={getSensorStatus(value, thresholds)}
RenderCard ==
    /\ status = "none"
    /\ status' = getSensorStatus(value, thresholds)
    /\ UNCHANGED <<value, thresholds>>
    /\ UNCHANGED <<reqVars, detVars>>

NextStatus == RenderCard

SpecStatus == InitStatus /\ [][NextStatus]_vars

\* ------------------------------------------- PendingLocationRequests: claims
RECURSIVE BagSize(_, _)
BagSize(bag, keys) ==
    IF keys = {} THEN 0
    ELSE LET k == CHOOSE x \in keys : TRUE
         IN  bag[k] + BagSize(bag, keys \ {k})

\* a step in which invocation k resumes from its await
Resumes(k) == handlers[k] > 0 /\ handlers'[k] < handlers[k]

\* a step in which invocation k ends in its catch block: it resumes, nothing is
\* suspended in its place, and no status update was applied
Fails(k) == handlers[k] > 0 /\ handlers' = Resume(handlers, k) /\ statusWrites' = statusWrites

\* C1 (as claimed): whenever a request has been approved, the locations table
\* holds exactly one row created from it.
C1_ApprovedHasExactlyOneLocation ==
    \A r \in Requests :
        location_requests[r].status = "approved" => locations[r] = 1

\* C2: no step of handleReject (the click, or resuming from either await, with
\* or without error) inserts into locations; a failing step writes nothing, and
\* a succeeding one changes status, reviewed_by and reviewed_at of the clicked
\* request only.
C2_RejectFrame ==
    [][ /\ \A r \in Requests :
              handlers'[Handler("reject", r, "getUser")]
                  > handlers[Handler("reject", r, "getUser")]
              => locations' = locations /\ location_requests' = location_requests
        /\ \A k \in HandlerStates :
              (k.kind = "reject" /\ Resumes(k)) =>
                  /\ locations' = locations
                  /\ \A r \in Requests \ {k.req} :
                        location_requests'[r] = location_requests[r]
                  /\ \/ location_requests' = location_requests
                     \/ /\ k.pc = "update"
                        /\ location_requests'[k.req] =
                              [location_name |-> location_requests[k.req].location_name,
                               status |-> "rejected",
                               reviewed_by |-> Reviewer,
                               reviewed_at |-> "now"]
      ]_vars

\* C2 witness: a rejection has succeeded next to a request that is still pending,
\* and no location exists.
C2_Witness ==
    \E r, q \in Requests :
        /\ location_requests[r].status = "rejected"
        /\ location_requests[q].status = "pending"
        /\ statusWrites[r] = 1
        /\ \A x \in Requests : locations[x] = 0

\* C3 (as claimed): the status of a request is written at most once.
C3_StatusWrittenAtMostOnce ==
    \A r \in Requests : statusWrites[r] <= 1

\* C8: rows of locations are never deleted; in particular the step in which
\* handleApprove's status update fails leaves the row it inserted in place and
\* the request as it was.
C8_NoRollback ==
    [][ /\ \A r \in Requests : locations'[r] >= locations[r]
        /\ \A k \in HandlerStates :
              (k.kind = "approve" /\ k.pc = "update" /\ Fails(k)) =>
                  /\ locations' = locations
                  /\ locations[k.req] >= 1
                  /\ location_requests' = location_requests
      ]_vars

\* C8 witness: every handler has returned, an approval failed, and a location
\* row exists for a request that is still pending.
C8_Witness ==
    /\ InFlight = {}
    /\ errorToasts >= 1
    /\ \E r \in Requests :
          locations[r] >= 1 /\ location_requests[r].status = "pending"

\* C9: every invocation ends with exactly one toast, and the step in which an
\* invocation fails (no user, insert error, update error) raises one error
\* toast and no success toast, writes to neither table, issues no refetch,
\* suspends nothing further, and sets processingId to null.
C9_FailureHandling ==
    /\ [](clicks = BagSize(handlers, HandlerStates) + errorToasts + successToasts)
    /\ [][ \A k \in HandlerStates :
              Fails(k) =>
                  /\ errorToasts' = errorToasts + 1
                  /\ successToasts' = successToasts
                  /\ locations' = locations
                  /\ location_requests' = location_requests
                  /\ fetchSent' = fetchSent
                  /\ fetchReplies' = fetchReplies
                  /\ requests' = requests
                  /\ processingId' = NoId
         ]_vars

\* C9 witness: all three invocations have failed and nothing is in flight.
C9_Witness ==
    /\ errorToasts = MaxClicks
    /\ InFlight = {}
    /\ processingId = NoId
    /\ \E r \in Requests : locations[r] >= 1
\* C11: every approved request has at least one location row created from it;
\* and the step in which handleApprove fails before its update (no user, or
\* the insert returned an error) applies no status update, suspends no update,
\* and leaves a pending request pending.
C11_ApprovedOnlyAfterInsert ==
    /\ [](\A r \in Requests :
             location_requests[r].status = "approved" => locations[r] >= 1)
    /\ [][ \A k \in HandlerStates :
              (k.kind = "approve" /\ k.pc \in {"getUser", "insert"} /\ Fails(k)) =>
                  /\ location_requests' = location_requests
                  /\ statusWrites' = statusWrites
                  /\ locations' = locations
                  /\ handlers'[Handler("approve", k.req, "update")]
                        = handlers[Handler("approve", k.req, "update")]
                  /\ location_requests[k.req].status = "pending"
                        => location_requests'[k.req].status = "pending"
         ]_vars

\* C11 witness: one approval of a request failed before its update and another
\* approval went through: a request is approved with its row, another is still
\* pending with no row, and nothing is in flight.
C11_Witness ==
    /\ InFlight = {}
    /\ errorToasts >= 1
    /\ successToasts >= 1
    /\ \E r, q \in Requests :
          /\ location_requests[r].status = "approved" /\ locations[r] = 1
          /\ location_requests[q].status = "pending" /\ locations[q] = 0

\* C12 (as claimed): while an approve or reject invocation for a request is in
\* flight, the Approve and Reject buttons of that request are disabled, so at
\* most one invocation per request is in flight.
C12_InFlightGuard ==
    /\ \A k \in InFlight : ~ButtonEnabled(k.req)
    /\ \A r \in Requests :
          BagSize(handlers, {k \in HandlerStates : k.req = r}) <= 1

\* ---------------------------------------------------- LocationDetails: claims
\* a step in which task t resumes from its await
TaskResumes(t) == tasks[t] > 0 /\ tasks'[t] < tasks[t]

\* a step in which a call of the given action for loc's credentials is issued
\* by function fn
Issues(fn, loc, action) ==
    tasks'[Task(fn, NoId, loc, action)] = tasks[Task(fn, NoId, loc, action)] + 1

\* a step that issues no call to thingspeak-service
IssuesNothing ==
    \A u \in TaskStates : u.pc \in {"latest", "history"} => tasks'[u] <= tasks[u]

RefreshesRunning == BagSize(tasks, {t \in TaskStates : t.fn = "handleRefresh"})

\* C4 (as claimed): while the view is mounted and holds the row of the routed
\* location, with both credentials, every firing of the interval issues a
\* "latest" call with that location's credentials.
C4_TimerFiringIssuesLatest ==
    [][ ( /\ ticks' = ticks + 1
          /\ mounted
          /\ location = DbRow(id)
          /\ HasCredentials(location) )
        => Issues("fetchSensorData", location, "latest")
      ]_vars

\* C5: at most one interval is live, it is the one created by the latest run
\* of the effect, none is live once the view is unmounted, and an interval
\* fires only while the view is mounted.
C5_PollingStopsAfterUnmount ==
    /\ [](/\ Cardinality(intervals) <= 1
          /\ \A t \in intervals : t.handle = effects
          /\ ~mounted => intervals = {})
    /\ [][ticks' # ticks => mounted /\ mounted']_vars

\* C5 witness: the view was routed to a second location, an interval fired,
\* and the view is now unmounted with no interval left.
C5_Witness ==
    /\ ~mounted
    /\ effects = 2
    /\ ticks = 1
    /\ intervals = {}

\* C6 (as claimed): when the select issued on mount returns a row with both
\* credentials, a "latest" call for that row is issued while isLoading is still
\* true, a "history" call follows when it returns, and isLoading is cleared
\* when that one returns; when a credential is absent no call is issued.
C6_MountFetchesLatestThenHistory ==
    [][ \A t \in TaskStates :
          /\ ( /\ t.fn = "fetchLocationData" /\ t.pc = "select"
               /\ effects = 1 /\ mounted
               /\ TaskResumes(t)
               /\ loadErrorToasts' = loadErrorToasts )
             => IF HasCredentials(DbRow(t.id))
                THEN /\ Issues("fetchLocationData", DbRow(t.id), "latest")
                     /\ isLoadingDetails'
                ELSE /\ IssuesNothing
                     /\ ~isLoadingDetails'
          /\ ( /\ t.fn = "fetchLocationData" /\ t.pc = "latest"
               /\ effects = 1 /\ mounted
               /\ TaskResumes(t) )
             => /\ Issues("fetchLocationData", t.location, "history")
                /\ isLoadingDetails'
          /\ ( /\ t.fn = "fetchLocationData" /\ t.pc = "history"
               /\ effects = 1 /\ mounted
               /\ TaskResumes(t) )
             => ~isLoadingDetails'
      ]_vars

\* C10: a click of Refresh on a location with both credentials issues one
\* "latest" call for it and sets isRefreshing; when that call returns (with
\* data or not) one "history" call for it is issued; when that one returns
\* isRefreshing is set false. While the view is mounted isRefreshing is true
\* exactly while a handleRefresh is running, and at most one is ever running.
C10_RefreshFetchesBoth ==
    /\ [](/\ RefreshesRunning <= 1
          /\ mounted => (isRefreshing <=> RefreshesRunning = 1))
    /\ [][ /\ (refreshes' = refreshes + 1 /\ HasCredentials(location))
              => /\ Issues("handleRefresh", location, "latest")
                 /\ \A u \in TaskStates :
                       u # Task("handleRefresh", NoId, location, "latest")
                       => tasks'[u] = tasks[u]
                 /\ isRefreshing'
           /\ \A t \in TaskStates :
                 /\ (t.fn = "handleRefresh" /\ t.pc = "latest" /\ TaskResumes(t))
                    => /\ Issues("handleRefresh", t.location, "history")
                       /\ isRefreshing' = isRefreshing
                 /\ (t.fn = "handleRefresh" /\ t.pc = "history" /\ TaskResumes(t))
                    => /\ IssuesNothing
                       /\ mounted => ~isRefreshing'
         ]_vars

\* C10 witness: two refreshes of a location with credentials have run to their
\* end; the history is shown and the button is enabled again.
C10_Witness ==
    /\ mounted
    /\ refreshes = 2
    /\ refreshedToasts = 2
    /\ HasCredentials(location)
    /\ historicalData = History(location)
    /\ ~isRefreshing
    /\ Running = {}

\* C13 (as claimed): while a location is shown, the reading and the history
\* held in state are those of that location (or none yet), and every call
\* issued to thingspeak-service carries the credentials of the current location
\* (the one held in `location`, or the one the route names).
C13_DataBelongsToShownLocation ==
    /\ []( (mounted /\ ~isLoadingDetails /\ location # NullLocation) =>
              /\ sensorData \in {NoId, Reading(location)}
              /\ rawData \in {NoId, Reading(location)}
              /\ historicalData \in {<<>>, History(location)} )
    /\ [][ \A u \in TaskStates :
              (u.pc \in {"latest", "history"} /\ tasks'[u] > tasks[u] /\ mounted)
                  => (u.location = location' \/ u.location = DbRow(id'))
         ]_vars

\* C7: getSensorStatus yields "danger" exactly for value >= danger, "warning"
\* exactly for warning <= value < danger, and "normal" otherwise (NaN included);
\* with the gas thresholds 299 is "normal", 300 "warning" and 500 "danger".
C7_ThresholdClassification ==
    status # "none" =>
        /\ (~value.isNaN /\ value.num >= thresholds.danger) => status = "danger"
        /\ (~value.isNaN /\ value.num < thresholds.danger
              /\ value.num >= thresholds.warning) => status = "warning"
        /\ (~value.isNaN /\ value.num < thresholds.danger
              /\ value.num < thresholds.warning) => status = "normal"
        /\ value.isNaN => status = "normal"
        /\ (thresholds = [warning |-> 300, danger |-> 500] /\ ~value.isNaN) =>
              /\ value.num = 299 => status = "normal"
              /\ value.num = 300 => status = "warning"
              /\ value.num = 500 => status = "danger"

\* C7 witness: the gas card has been rendered for a reading of exactly 300.
C7_Witness ==
    /\ thresholds = GasThresholds
    /\ value = Number(300)
    /\ status = "warning"
====
